---- MODULE Spec2Model ----
(***************************************************************************)
(* The Minesweeper engine (class Minesweeper) and the two routes of        *)
(* main.ts that mutate it.  One engine instance is built at start-up and   *)
(* shared by every request; each public call is one step.                  *)
(***************************************************************************)
EXTENDS Integers, Sequences, FiniteSets, TLC

\* Bounds of the model: the number of cells of the board (rows * cols) and the
\* number of clock ticks.
MaxCells == 5
MaxTime == 1

VARIABLES
    rows, cols, mineCount,     \* constructor arguments, fixed for the instance
    board,                     \* Cell[][] as a function on <<row, col>>
    gameState,                 \* 'playing' | 'won' | 'lost'
    remainingNonMineCells,
    hitMineCoordinates,        \* <<>> for null, else <<row, col>>
    startTime, endTime,        \* endTime: <<>> for null, else <<t>>
    now,                       \* what new Date() returns
    stack,                     \* the activations of revealCell and resetGame in progress
    observed,                  \* what the last read request was answered with
    minesPlaced,               \* the local minesPlaced of placeMines while it runs, else 0
    thrown,                    \* <<e>> when the last call threw e, <<>> when it returned
    visited,                   \* cells that passed revealCell's guard in the last call, in order
    edges                      \* assignments to gameState made by the last call, as <<old, new>>

vars == <<rows, cols, mineCount, board, gameState, remainingNonMineCells,
          hitMineCoordinates, startTime, endTime, now, stack, observed,
          minesPlaced, thrown, visited, edges>>

NULL == <<>>

\* type GameState
GameStates == {"playing", "won", "lost"}

\* Minesweeper.DIRECTIONS
DIRECTIONS ==
    << <<-1, -1>>, <<-1, 0>>, <<-1, 1>>,
       <<0, -1>>,             <<0, 1>>,
       <<1, -1>>,  <<1, 0>>,  <<1, 1>> >>

\* The index pairs of board[r][c] for the instance's dimensions.
Cells == (0 .. rows - 1) \X (0 .. cols - 1)

Range(s) == {s[i] : i \in 1 .. Len(s)}

\* A bounds check that forgets row 0 and column 0.
isValidPositionPositive(row, col) ==
    row > 0 /\ row < rows /\ col > 0 /\ col < cols

isValidPosition(row, col) ==
    row >= 0 /\ row < rows /\ col >= 0 /\ col < cols

initializeBoard ==
    [p \in Cells |-> [isMine |-> FALSE, isRevealed |-> FALSE, adjacentMines |-> 0]]

\* One successful iteration of the placement loop that counts a pick even
\* when the picked cell already holds a mine.
pickMineCounted(mines) ==
    {mines \cup {p} : p \in Cells}

\* One iteration of the while loop of placeMines that places a mine: a random
\* cell is picked and, not being a mine yet, is marked.  (A pick of a cell
\* that is already a mine changes nothing.)
pickMine(mines) ==
    {mines \cup {p} : p \in Cells \ mines}

\* The mine sets the loop of placeMines can end with, from the mine sets F
\* reached with placed mines counted.
RECURSIVE placeMinesLoop(_, _)
placeMinesLoop(F, placed) ==
    IF placed < mineCount
    THEN placeMinesLoop(UNION {pickMine(m) : m \in F}, placed + 1)
    ELSE F

\* placeMines: the boards it can leave, from board b.
placeMines(b) ==
    {[p \in Cells |-> [b[p] EXCEPT !.isMine = (p \in m)]] : m \in placeMinesLoop({{}}, 0)}

\* The number of indices i >= k of DIRECTIONS whose neighbour of (row, col)
\* is in bounds and a mine.
RECURSIVE countFrom(_, _, _, _)
countFrom(b, row, col, k) ==
    IF k > Len(DIRECTIONS) THEN 0
    ELSE LET newRow == row + DIRECTIONS[k][1]
             newCol == col + DIRECTIONS[k][2]
         IN (IF isValidPosition(newRow, newCol) /\ b[<<newRow, newCol>>].isMine THEN 1 ELSE 0)
            + countFrom(b, row, col, k + 1)

calculateAdjacentMines(b) ==
    [p \in Cells |->
        [b[p] EXCEPT !.adjacentMines =
            IF b[p].isMine THEN 0 ELSE countFrom(b, p[1], p[2], 1)]]

\* The boards a new game can start with: initializeBoard, placeMines,
\* calculateAdjacentMines.
NewBoards == {calculateAdjacentMines(b) : b \in placeMines(initializeBoard)}


\* The mutable fields of the instance, as one record the methods work on.
this ==
    [board |-> board, gameState |-> gameState,
     remainingNonMineCells |-> remainingNonMineCells,
     hitMineCoordinates |-> hitMineCoordinates,
     startTime |-> startTime, endTime |-> endTime,
     thrown |-> NULL, visited |-> <<>>, edges |-> <<>>]

\* An assignment to this.gameState, recorded in edges.
setGameState(t, s) ==
    [t EXCEPT !.gameState = s, !.edges = Append(@, <<t.gameState, s>>)]

\* A reveal-all loop that stops one row short.
revealAllCellsButLastRow(t) ==
    [t EXCEPT !.board =
        [p \in Cells |-> IF p[1] < rows - 1 THEN [t.board[p] EXCEPT !.isRevealed = TRUE]
                         ELSE t.board[p]]]

revealAllCells(t) ==
    [t EXCEPT !.board = [p \in Cells |-> [t.board[p] EXCEPT !.isRevealed = TRUE]]]

\* A win test that is off by one.
checkWinConditionEarly(t) ==
    t.remainingNonMineCells = 1

checkWinCondition(t) ==
    t.remainingNonMineCells = 0

RECURSIVE revealCell(_, _, _)
RECURSIVE floodFill(_, _, _, _)

\* revealCell whose mine branch does not return.
revealCellNoReturn(t, row, col) ==
    IF t.gameState # "playing" \/ ~isValidPosition(row, col) \/ t.board[<<row, col>>].isRevealed
    THEN t
    ELSE
      LET cell == t.board[<<row, col>>]
          t1 == [t EXCEPT !.board[<<row, col>>].isRevealed = TRUE,
                          !.visited = Append(@, <<row, col>>)]
          t2 == IF cell.isMine
                THEN revealAllCells(
                       [setGameState(t1, "lost") EXCEPT !.endTime = <<now>>,
                                                        !.hitMineCoordinates = <<row, col>>])
                ELSE t1
          t3 == [t2 EXCEPT !.remainingNonMineCells = @ - 1]
          t4 == IF cell.adjacentMines = 0 THEN floodFill(t3, row, col, 1) ELSE t3
      IN IF checkWinCondition(t4)
         THEN revealAllCells([setGameState(t4, "won") EXCEPT !.endTime = <<now>>])
         ELSE t4

\* revealCell without the decrement of remainingNonMineCells.
revealCellNoDecrement(t, row, col) ==
    IF t.gameState # "playing" \/ ~isValidPosition(row, col) \/ t.board[<<row, col>>].isRevealed
    THEN t
    ELSE
      LET cell == t.board[<<row, col>>]
          t1 == [t EXCEPT !.board[<<row, col>>].isRevealed = TRUE,
                          !.visited = Append(@, <<row, col>>)]
      IN IF cell.isMine
         THEN revealAllCells(
                [setGameState(t1, "lost") EXCEPT !.endTime = <<now>>,
                                                 !.hitMineCoordinates = <<row, col>>])
         ELSE
           LET t3 == IF cell.adjacentMines = 0 THEN floodFill(t1, row, col, 1) ELSE t1
           IN IF checkWinCondition(t3)
              THEN revealAllCells([setGameState(t3, "won") EXCEPT !.endTime = <<now>>])
              ELSE t3

\* revealCell that decrements remainingNonMineCells before its guard.
revealCellCountsFirst(t, row, col) ==
    LET t0 == [t EXCEPT !.remainingNonMineCells = @ - 1]
    IN
    IF t.gameState # "playing" \/ ~isValidPosition(row, col) \/ t.board[<<row, col>>].isRevealed
    THEN t0
    ELSE
      LET cell == t.board[<<row, col>>]
          t1 == [t0 EXCEPT !.board[<<row, col>>].isRevealed = TRUE,
                           !.visited = Append(@, <<row, col>>)]
      IN IF cell.isMine
         THEN revealAllCells(
                [setGameState(t1, "lost") EXCEPT !.endTime = <<now>>,
                                                 !.hitMineCoordinates = <<row, col>>])
         ELSE
           LET t3 == IF cell.adjacentMines = 0 THEN floodFill(t1, row, col, 1) ELSE t1
           IN IF checkWinCondition(t3)
              THEN revealAllCells([setGameState(t3, "won") EXCEPT !.endTime = <<now>>])
              ELSE t3

\* revealCell that starts the flood fill from every cell without a mine.
revealCellAlwaysFlood(t, row, col) ==
    IF t.gameState # "playing" \/ ~isValidPosition(row, col) \/ t.board[<<row, col>>].isRevealed
    THEN t
    ELSE
      LET cell == t.board[<<row, col>>]
          t1 == [t EXCEPT !.board[<<row, col>>].isRevealed = TRUE,
                          !.visited = Append(@, <<row, col>>)]
      IN IF cell.isMine
         THEN revealAllCells(
                [setGameState(t1, "lost") EXCEPT !.endTime = <<now>>,
                                                 !.hitMineCoordinates = <<row, col>>])
         ELSE
           LET t2 == [t1 EXCEPT !.remainingNonMineCells = @ - 1]
               t3 == floodFill(t2, row, col, 1)
           IN IF checkWinCondition(t3)
              THEN revealAllCells([setGameState(t3, "won") EXCEPT !.endTime = <<now>>])
              ELSE t3

\* revealCell(row, col) on the instance t; the result is the instance when
\* the call returns.
revealCell(t, row, col) ==
    IF t.gameState # "playing" \/ ~isValidPosition(row, col) \/ t.board[<<row, col>>].isRevealed
    THEN t
    ELSE
      LET cell == t.board[<<row, col>>]
          t1 == [t EXCEPT !.board[<<row, col>>].isRevealed = TRUE,
                          !.visited = Append(@, <<row, col>>)]
      IN IF cell.isMine
         THEN revealAllCells(
                [setGameState(t1, "lost") EXCEPT !.endTime = <<now>>,
                                                 !.hitMineCoordinates = <<row, col>>])
         ELSE
           LET t2 == [t1 EXCEPT !.remainingNonMineCells = @ - 1]
               t3 == IF cell.adjacentMines = 0 THEN floodFill(t2, row, col, 1) ELSE t2
           IN IF checkWinCondition(t3)
              THEN revealAllCells([setGameState(t3, "won") EXCEPT !.endTime = <<now>>])
              ELSE t3

\* A loop that reveals the neighbours itself instead of calling revealCell
\* on them, so that the fill stops after one ring.
floodFillOneRing(t, row, col, k) ==
    IF k > Len(DIRECTIONS) THEN t
    ELSE LET newRow == row + DIRECTIONS[k][1]
             newCol == col + DIRECTIONS[k][2]
             n == IF isValidPosition(newRow, newCol) /\ ~t.board[<<newRow, newCol>>].isRevealed
                  THEN [t EXCEPT !.board[<<newRow, newCol>>].isRevealed = TRUE,
                                 !.visited = Append(@, <<newRow, newCol>>),
                                 !.remainingNonMineCells = @ - 1]
                  ELSE t
         IN IF n.gameState \in GameStates THEN floodFill(n, row, col, k + 1) ELSE n

\* The for loop of revealCell over DIRECTIONS, from index k on: n is the
\* instance when the k-th recursive call returns.  (The test of n makes the
\* evaluation finish each call before the next one starts, as the loop does;
\* gameState is always one of GameStates.)
floodFill(t, row, col, k) ==
    IF k > Len(DIRECTIONS) THEN t
    ELSE LET n == revealCell(t, row + DIRECTIONS[k][1], col + DIRECTIONS[k][2])
         IN IF n.gameState \in GameStates THEN floodFill(n, row, col, k + 1) ELSE n

\* isValidPosition on coordinates given in halves: row2 stands for the
\* number row2 / 2, col2 for col2 / 2.
isValidPositionHalves(row2, col2) ==
    row2 >= 0 /\ row2 < 2 * rows /\ col2 >= 0 /\ col2 < 2 * cols

\* The TypeError of reading a property of undefined.
TypeError == "Cannot read properties of undefined"

\* revealCell(row2 / 2, col2 / 2).  With a coordinate that is not an integer
\* and passes isValidPosition, this.board[row] or this.board[row][col] is
\* undefined and the guard's read of the next property throws.
revealCellHalves(t, row2, col2) ==
    IF t.gameState # "playing" \/ ~isValidPositionHalves(row2, col2)
    THEN t
    ELSE IF row2 % 2 # 0 \/ col2 % 2 # 0
         THEN [t EXCEPT !.thrown = <<TypeError>>]
         ELSE revealCell(t, row2 \div 2, col2 \div 2)

\* initializeNewGame that leaves remainingNonMineCells as it was.
initializeNewGameStaleCounter(t) ==
    {[setGameState(t, "playing") EXCEPT
               !.board = b,
               !.startTime = now,
               !.endTime = NULL,
               !.hitMineCoordinates = NULL] : b \in NewBoards}

\* initializeNewGame that leaves hitMineCoordinates as it was.
initializeNewGameKeepHit(t) ==
    {[setGameState(t, "playing") EXCEPT
               !.remainingNonMineCells = rows * cols - mineCount,
               !.board = b,
               !.startTime = now,
               !.endTime = NULL] : b \in NewBoards}

\* initializeNewGame: the instances it can leave.
initializeNewGame(t) ==
    {[setGameState(t, "playing") EXCEPT
               !.remainingNonMineCells = rows * cols - mineCount,
               !.board = b,
               !.startTime = now,
               !.endTime = NULL,
               !.hitMineCoordinates = NULL] : b \in NewBoards}

\* The condition under which resetGame throws.
resetGameThrows(t) == t.gameState = "playing"

\* The Error resetGame throws.
GameInProgress ==
    "Cannot reset the game while it is still in progress. Game must be 'won' or 'lost'."

\* resetGame without its test of gameState.
resetGameUnguarded(t) ==
    initializeNewGame(t)

\* resetGame: the instances it can leave; thrown holds the error when it throws.
resetGame(t) ==
    IF resetGameThrows(t)
    THEN {[t EXCEPT !.thrown = <<GameInProgress>>]}
    ELSE initializeNewGame(t)

\* The template string `cell_revealed_${adjacentMines}`.
cellRevealedKey(n) ==
    << "cell_revealed_0", "cell_revealed_1", "cell_revealed_2", "cell_revealed_3",
       "cell_revealed_4", "cell_revealed_5", "cell_revealed_6", "cell_revealed_7",
       "cell_revealed_8" >>[n + 1]

\* getCellImage that compares only the row with the hit mine.
getCellImageRowOnly(row, col) ==
    IF ~isValidPosition(row, col) THEN "undefined"
    ELSE LET cell == board[<<row, col>>]
         IN IF ~cell.isRevealed THEN "cell_hidden"
            ELSE IF cell.isMine
            THEN IF gameState = "lost"
                 THEN IF hitMineCoordinates # NULL /\ hitMineCoordinates[1] = row
                      THEN "mine_hit"
                      ELSE "mine_normal"
                 ELSE IF gameState = "won" THEN "mine_normal"
                 ELSE "mine_hit"
            ELSE cellRevealedKey(cell.adjacentMines)

\* getCellImage, as the ImageKey it looks up ("undefined" when it returns
\* undefined for an invalid position).
getCellImage(row, col) ==
    IF ~isValidPosition(row, col) THEN "undefined"
    ELSE LET cell == board[<<row, col>>]
         IN IF ~cell.isRevealed THEN "cell_hidden"
            ELSE IF cell.isMine
            THEN IF gameState = "lost"
                 THEN IF hitMineCoordinates # NULL /\ hitMineCoordinates[1] = row
                         /\ hitMineCoordinates[2] = col
                      THEN "mine_hit"
                      ELSE "mine_normal"
                 ELSE IF gameState = "won" THEN "mine_normal"
                 ELSE "mine_hit"
            ELSE cellRevealedKey(cell.adjacentMines)

getGameStatusImage ==
    CASE gameState = "playing" -> "status_playing"
      [] gameState = "won" -> "status_won"
      [] gameState = "lost" -> "status_lost"
      [] OTHER -> "status_playing"

----
\* The instance after the methods have run: the fields of t become the state.
Install(t) ==
    /\ board' = t.board
    /\ gameState' = t.gameState
    /\ remainingNonMineCells' = t.remainingNonMineCells
    /\ hitMineCoordinates' = t.hitMineCoordinates
    /\ startTime' = t.startTime
    /\ endTime' = t.endTime
    /\ thrown' = t.thrown
    /\ visited' = t.visited
    /\ edges' = t.edges

\* new Minesweeper(rows, cols, mineCount) for arguments the constructor accepts.
Init ==
    /\ rows \in 1 .. MaxCells
    /\ cols \in 1 .. MaxCells
    /\ rows * cols <= MaxCells
    /\ mineCount \in 0 .. rows * cols
    /\ now = 0
    /\ gameState = "playing"
    /\ remainingNonMineCells = rows * cols - mineCount
    /\ board \in NewBoards
    /\ startTime = now
    /\ hitMineCoordinates = NULL
    /\ endTime = NULL
    /\ minesPlaced = 0
    /\ thrown = NULL
    /\ visited = <<>>
    /\ edges = <<>>
    /\ stack = <<>>
    /\ observed = NULL

\* The constructor's validation that rejects mineCount = rows * cols too.
constructorThrowsAtBoundary(r, c, m) ==
    IF r <= 0 \/ c <= 0
    THEN <<"Board dimensions (rows, cols) must be positive integers.">>
    ELSE IF m < 0
    THEN <<"Mine count cannot be negative.">>
    ELSE IF m >= r * c
    THEN <<"Mine count cannot exceed the total number of cells (rows * cols).">>
    ELSE <<>>

\* The constructor's validation of its arguments: <<e>> when it throws e.
constructorThrows(r, c, m) ==
    IF r <= 0 \/ c <= 0
    THEN <<"Board dimensions (rows, cols) must be positive integers.">>
    ELSE IF m < 0
    THEN <<"Mine count cannot be negative.">>
    ELSE IF m > r * c
    THEN <<"Mine count cannot exceed the total number of cells (rows * cols).">>
    ELSE <<>>

\* Before new Minesweeper(rows, cols, mineCount) has run: rows, cols and
\* mineCount hold the arguments of the call, valid or not, and the instance
\* has no field yet.
InitNew ==
    /\ rows \in -1 .. MaxCells
    /\ cols \in -1 .. MaxCells
    /\ (rows > 0 /\ cols > 0) => rows * cols <= MaxCells
    /\ mineCount \in -1 .. MaxCells + 1
    /\ now = 0
    /\ gameState = "undefined"
    /\ remainingNonMineCells = 0
    /\ board = NULL
    /\ startTime = 0
    /\ hitMineCoordinates = NULL
    /\ endTime = NULL
    /\ minesPlaced = 0
    /\ thrown = NULL
    /\ visited = <<>>
    /\ edges = <<>>
    /\ stack = <<>>
    /\ observed = NULL

\* new Minesweeper(rows, cols, mineCount): throws on arguments it rejects,
\* else sets the fields, builds the board and stamps the start time.
New ==
    /\ gameState = "undefined"
    /\ thrown = NULL
    /\ IF constructorThrows(rows, cols, mineCount) # <<>>
       THEN /\ thrown' = constructorThrows(rows, cols, mineCount)
            /\ UNCHANGED <<board, gameState, remainingNonMineCells, startTime>>
       ELSE /\ thrown' = NULL
            /\ gameState' = "playing"
            /\ remainingNonMineCells' = rows * cols - mineCount
            /\ board' \in NewBoards
            /\ startTime' = now
    /\ UNCHANGED <<rows, cols, mineCount, now, hitMineCoordinates, endTime,
                   minesPlaced, visited, edges, stack, observed>>

NextNew == New

SpecNew == InitNew /\ [][NextNew]_vars

\* The body of the while loop of placeMines that marks the picked cell
\* without counting it.
placeStepNoCount(b, placed, row, col) ==
    IF ~b[<<row, col>>].isMine
    THEN [board |-> [b EXCEPT ![<<row, col>>].isMine = TRUE], minesPlaced |-> placed]
    ELSE [board |-> b, minesPlaced |-> placed]

\* The body of the while loop of placeMines for the picked (row, col): the
\* board and the local minesPlaced after it.
placeStep(b, placed, row, col) ==
    IF ~b[<<row, col>>].isMine
    THEN [board |-> [b EXCEPT ![<<row, col>>].isMine = TRUE], minesPlaced |-> placed + 1]
    ELSE [board |-> b, minesPlaced |-> placed]

\* placeMines at the head of its while loop, in a construction with
\* arguments the constructor accepts or in a reset: the board holds no mine
\* and minesPlaced is 0.
InitPlace ==
    /\ rows \in 1 .. MaxCells
    /\ cols \in 1 .. MaxCells
    /\ rows * cols <= MaxCells
    /\ mineCount \in 0 .. rows * cols
    /\ now = 0
    /\ gameState = "playing"
    /\ remainingNonMineCells = rows * cols - mineCount
    /\ board = initializeBoard
    /\ startTime = 0
    /\ hitMineCoordinates = NULL
    /\ endTime = NULL
    /\ minesPlaced = 0
    /\ thrown = NULL
    /\ visited = <<>>
    /\ edges = <<>>
    /\ stack = <<>>
    /\ observed = NULL

\* One iteration of the while loop: Math.floor(Math.random() * rows) and
\* Math.floor(Math.random() * cols) pick the cell (row, col).
Pick(row, col) ==
    /\ minesPlaced < mineCount
    /\ LET r == placeStep(board, minesPlaced, row, col)
       IN /\ board' = r.board
          /\ minesPlaced' = r.minesPlaced
    /\ UNCHANGED <<rows, cols, mineCount, gameState, remainingNonMineCells,
                   hitMineCoordinates, startTime, endTime, now, thrown,
                   visited, edges, stack, observed>>

NextPlace == \E p \in Cells : Pick(p[1], p[2])

\* The random picks are fair: while the loop runs, a pick that changes the
\* state (a cell that holds no mine yet) comes eventually.
SpecPlace == InitPlace /\ [][NextPlace]_vars /\ WF_vars(NextPlace)

\* GET /cell/:row/:col/click with integer coordinates: minesweeper.revealCell(row, col).
RevealCell(row, col) ==
    /\ Install(revealCell(this, row, col))
    /\ UNCHANGED <<rows, cols, mineCount, now, minesPlaced, stack, observed>>

\* GET /cell/:row/:col/click with coordinates given in halves, such as
\* /cell/0.5/0/click: Number() yields a number that is not NaN and the route
\* calls minesweeper.revealCell with it.
RevealCellHalves(row2, col2) ==
    /\ Install(revealCellHalves(this, row2, col2))
    /\ UNCHANGED <<rows, cols, mineCount, now, minesPlaced, stack, observed>>

\* GET /game/reset while the game is in progress: resetGame throws, the route
\* catches the error and logs its message.
ResetGameRejected ==
    /\ resetGameThrows(this)
    /\ \E t \in resetGame(this) : Install(t)
    /\ UNCHANGED <<rows, cols, mineCount, now, minesPlaced, stack, observed>>

\* GET /game/reset after the game has ended: resetGame re-initializes.
ResetGame ==
    /\ ~resetGameThrows(this)
    /\ \E t \in resetGame(this) : Install(t)
    /\ UNCHANGED <<rows, cols, mineCount, now, minesPlaced, stack, observed>>

\* Time passes between requests.
Tick ==
    /\ now < MaxTime
    /\ now' = now + 1
    /\ UNCHANGED <<rows, cols, mineCount, board, gameState, remainingNonMineCells,
                   hitMineCoordinates, startTime, endTime, minesPlaced, thrown,
                   visited, edges, stack, observed>>

\* The coordinates the click route is called with: every cell, and one pair
\* for each way isValidPosition can fail.
ClickArgs ==
    Cells \cup {<<-1, 0>>, <<rows, 0>>, <<0, -1>>, <<0, cols>>}

\* Coordinates in halves of which one is not an integer: (0.5, 0), (0, 0.5),
\* (-0.5, 0) and (0, cols + 0.5).
FractionArgs ==
    {<<1, 0>>, <<0, 1>>, <<-1, 0>>, <<0, 2 * cols + 1>>}

Next ==
    \/ \E a \in ClickArgs : RevealCell(a[1], a[2])
    \/ \E a \in FractionArgs : RevealCellHalves(a[1], a[2])
    \/ ResetGameRejected
    \/ ResetGame
    \/ Tick

Spec == Init /\ [][Next]_vars

----
\* The same engine behind the server's event loop, a statement or a call at
\* a time: stack holds the activations of revealCell and resetGame that have
\* not returned, the innermost last.

\* An activation: pc is "loop" in the for loop over DIRECTIONS, about to make
\* its k-th recursive call, "check" before the win test, "revealAll" before
\* revealAllCells, "initializeNewGame" before the board is rebuilt.
Frame(row, col, pc, k) == [row |-> row, col |-> col, pc |-> pc, k |-> k]

\* An event loop that hands the next request to its handler while a handler
\* is still running.
serveAnytime(stk) ==
    TRUE

\* When the event loop hands the next request to its handler: the handlers
\* are synchronous functions without await, so when none is running.
idle(stk) ==
    stk = <<>>

\* A call revealCell(row, col) made with the activations stk in progress, up
\* to its return or to the point before its first statement that calls or
\* loops: the instance and the stack then.
callRevealCell(t, stk, row, col) ==
    IF t.gameState # "playing" \/ ~isValidPosition(row, col) \/ t.board[<<row, col>>].isRevealed
    THEN [t |-> t, stack |-> stk]
    ELSE
      LET cell == t.board[<<row, col>>]
          t1 == [t EXCEPT !.board[<<row, col>>].isRevealed = TRUE]
      IN IF cell.isMine
         THEN [t |-> [t1 EXCEPT !.gameState = "lost", !.endTime = <<now>>,
                                !.hitMineCoordinates = <<row, col>>],
               stack |-> Append(stk, Frame(row, col, "revealAll", 0))]
         ELSE
           LET t2 == [t1 EXCEPT !.remainingNonMineCells = @ - 1]
           IN IF cell.adjacentMines = 0
              THEN [t |-> t2, stack |-> Append(stk, Frame(row, col, "loop", 1))]
              ELSE [t |-> t2, stack |-> Append(stk, Frame(row, col, "check", 0))]

\* The next step of the innermost activation: the instances and stacks it
\* can lead to.
runStep(t, stk) ==
    LET f == stk[Len(stk)]
        rest == SubSeq(stk, 1, Len(stk) - 1)
    IN CASE f.pc = "loop" ->
              IF f.k > Len(DIRECTIONS)
              THEN {[t |-> t, stack |-> Append(rest, [f EXCEPT !.pc = "check"])]}
              ELSE {callRevealCell(t, Append(rest, [f EXCEPT !.k = @ + 1]),
                                   f.row + DIRECTIONS[f.k][1], f.col + DIRECTIONS[f.k][2])}
         [] f.pc = "check" ->
              IF checkWinCondition(t)
              THEN {[t |-> [t EXCEPT !.gameState = "won", !.endTime = <<now>>],
                     stack |-> Append(rest, [f EXCEPT !.pc = "revealAll"])]}
              ELSE {[t |-> t, stack |-> rest]}
         [] f.pc = "revealAll" ->
              {[t |-> revealAllCells(t), stack |-> rest]}
         [] OTHER ->
              {[t |-> [t EXCEPT !.board = b, !.startTime = now, !.endTime = NULL,
                                !.hitMineCoordinates = NULL],
                stack |-> rest] : b \in NewBoards}

\* The fields of r.t and the stack r.stack become the state.
InstallLoop(r) ==
    /\ board' = r.t.board
    /\ gameState' = r.t.gameState
    /\ remainingNonMineCells' = r.t.remainingNonMineCells
    /\ hitMineCoordinates' = r.t.hitMineCoordinates
    /\ startTime' = r.t.startTime
    /\ endTime' = r.t.endTime
    /\ thrown' = r.t.thrown
    /\ stack' = r.stack
    /\ UNCHANGED <<rows, cols, mineCount, now, minesPlaced, visited, edges>>

\* GET /cell/:row/:col/click is handed to its handler, which calls revealCell.
ServeClick(row, col) ==
    /\ idle(stack)
    /\ InstallLoop(callRevealCell(this, stack, row, col))
    /\ observed' = NULL

\* GET /game/reset is handed to its handler, which calls resetGame: it
\* throws, or initializeNewGame sets gameState and the counter and goes on
\* to rebuild the board.
ServeReset ==
    /\ idle(stack)
    /\ IF resetGameThrows(this)
       THEN InstallLoop([t |-> [this EXCEPT !.thrown = <<GameInProgress>>], stack |-> stack])
       ELSE InstallLoop([t |-> [this EXCEPT !.gameState = "playing",
                                            !.remainingNonMineCells = rows * cols - mineCount],
                         stack |-> Append(stack, Frame(0, 0, "initializeNewGame", 0))])
    /\ observed' = NULL

\* The handler that is running goes on by one step.
Run ==
    /\ stack # <<>>
    /\ \E r \in runStep([this EXCEPT !.thrown = thrown], stack) : InstallLoop(r)
    /\ UNCHANGED observed

\* GET /cell/:row/:col/image is handed to its handler and answered with the
\* image of getCellImage(row, col).
ServeCellImage(row, col) ==
    /\ idle(stack)
    /\ observed' = <<getCellImage(row, col), row, col>>
    /\ UNCHANGED <<rows, cols, mineCount, board, gameState, remainingNonMineCells,
                   hitMineCoordinates, startTime, endTime, now, stack,
                   minesPlaced, thrown, visited, edges>>

\* GET /game/status is handed to its handler and answered with the image of
\* getGameStatusImage().
ServeStatus ==
    /\ idle(stack)
    /\ observed' = <<getGameStatusImage>>
    /\ UNCHANGED <<rows, cols, mineCount, board, gameState, remainingNonMineCells,
                   hitMineCoordinates, startTime, endTime, now, stack,
                   minesPlaced, thrown, visited, edges>>

NextLoop ==
    \/ \E a \in Cells : ServeClick(a[1], a[2])
    \/ ServeReset
    \/ Run
    \/ \E a \in Cells : ServeCellImage(a[1], a[2])
    \/ ServeStatus

SpecLoop == Init /\ [][NextLoop]_vars

----
\* Vocabulary of the properties.
Mines == {p \in Cells : board[p].isMine}
NonMines == Cells \ Mines
Revealed == {p \in Cells : board[p].isRevealed}

Abs(n) == IF n < 0 THEN -n ELSE n

\* The Moore neighbourhood of p on the board.
MooreNeighbours(p) ==
    {q \in Cells : q # p /\ Abs(q[1] - p[1]) <= 1 /\ Abs(q[2] - p[2]) <= 1}

\* C1: in every reachable state exactly mineCount cells of the board are mines.
C1_ExactlyMineCountMines ==
    Cardinality(Mines) = mineCount

\* A game started by a reset, with several mines, in which cells have since
\* been revealed by a flood fill.
C1_Witness ==
    /\ mineCount >= 2
    /\ startTime > 0
    /\ gameState = "playing"
    /\ Len(visited) >= 2

\* C2: every non-mine cell's adjacentMines is the number of mines among its
\* in-bounds Moore neighbours, and every mine's adjacentMines is 0.
C2_AdjacentMinesIsMooreCount ==
    \A p \in Cells :
        board[p].adjacentMines =
            IF board[p].isMine THEN 0 ELSE Cardinality(MooreNeighbours(p) \cap Mines)

\* After a reset: the corner cell (0, 0) is no mine and counts two mines of
\* its three neighbours.
C2_Witness ==
    /\ edges = << <<"won", "playing">> >>
    /\ rows >= 2 /\ cols >= 2
    /\ ~board[<<0, 0>>].isMine /\ board[<<0, 0>>].adjacentMines = 2
    /\ Cardinality(MooreNeighbours(<<0, 0>>)) = 3

\* C3: gameState changes only from playing to won or lost, in a revealCell
\* call (nested calls included), and from won or lost to playing, in a
\* resetGame call.
C3_StateEdges ==
    [][/\ \A i \in 1 .. Len(edges') :
            edges'[i][1] # edges'[i][2] =>
                IF visited' # <<>>
                THEN edges'[i] \in {<<"playing", "won">>, <<"playing", "lost">>}
                ELSE edges'[i] \in {<<"won", "playing">>, <<"lost", "playing">>}
       /\ gameState' # gameState =>
            /\ edges' # <<>>
            /\ edges'[1][1] = gameState
            /\ edges'[Len(edges')][2] = gameState'
      ]_vars

\* A flood fill in which a nested call won the game and the calls around it
\* ran on to their own win test.
C3_Witness ==
    /\ gameState = "won"
    /\ Len(visited) >= 3
    /\ Len(edges) >= 3
    /\ mineCount >= 1

\* C4: in state won or lost every cell is revealed.
C4_TerminalAllRevealed ==
    gameState \in {"won", "lost"} => Revealed = Cells

\* A game lost at the first click, with non-mine cells in two rows that only
\* revealAllCells revealed.
C4_Witness ==
    /\ gameState = "lost"
    /\ rows >= 2
    /\ remainingNonMineCells = rows * cols - mineCount
    /\ remainingNonMineCells >= 3

\* C5 as claimed: in every state, lost included, remainingNonMineCells is the
\* number of unrevealed non-mine cells.
C5_CounterIsUnrevealedNonMines ==
    remainingNonMineCells = Cardinality(NonMines \ Revealed)

\* C5 as amended: while the state is playing or won, remainingNonMineCells is
\* the number of unrevealed non-mine cells.
C5_CounterWhilePlayingOrWon ==
    gameState \in {"playing", "won"} =>
        remainingNonMineCells = Cardinality(NonMines \ Revealed)

\* A game in progress in which a flood fill has revealed some but not all of
\* the non-mine cells.
C5_Witness ==
    /\ gameState = "playing"
    /\ Len(visited) >= 2
    /\ remainingNonMineCells >= 1
    /\ mineCount >= 1

\* C6: remainingNonMineCells = 0 exactly when the state is won, for every
\* valid construction.
C6_ZeroIffWon ==
    (remainingNonMineCells = 0) <=> (gameState = "won")

\* What C7 says of one step.
HitMineStep ==
    /\ (hitMineCoordinates' # NULL) <=> (gameState' = "lost")
    /\ hitMineCoordinates' # NULL =>
         /\ hitMineCoordinates' \in Cells
         /\ board'[hitMineCoordinates'].isMine
    /\ (gameState = "playing" /\ gameState' = "lost") =>
         \E a \in ClickArgs :
             /\ RevealCell(a[1], a[2])
             /\ hitMineCoordinates' = a
    /\ (gameState = "lost" /\ gameState' = "lost") =>
         hitMineCoordinates' = hitMineCoordinates

\* C7: hitMineCoordinates is set exactly in state lost, and it is then the
\* mine given as (row, col) to the revealCell call that lost the game.
C7_HitMineIffLost ==
    ((hitMineCoordinates # NULL) <=> (gameState = "lost")) /\ [][HitMineStep]_vars

\* A game started by a reset, with several mines, lost on a mine that is not
\* cell (0, 0).
C7_Witness ==
    /\ gameState = "lost"
    /\ startTime > 0
    /\ mineCount >= 2
    /\ hitMineCoordinates # NULL
    /\ hitMineCoordinates # <<0, 0>>
    /\ visited = <<hitMineCoordinates>>

\* The ImageKey of every cell.
ImageKeys == [p \in Cells |-> getCellImage(p[1], p[2])]

\* C8: while playing, revealCell on an unrevealed mine loses the game and
\* reveals the whole board; the clicked cell then maps to mine_hit, every
\* other mine to mine_normal, and no other cell maps to mine_hit.
C8_MineClickLoses ==
    [][\A p \in Cells :
          (/\ gameState = "playing"
           /\ ~board[p].isRevealed
           /\ board[p].isMine
           /\ RevealCell(p[1], p[2]))
          => /\ gameState' = "lost"
             /\ Revealed' = Cells
             /\ ImageKeys'[p] = "mine_hit"
             /\ \A q \in Mines' \ {p} : ImageKeys'[q] = "mine_normal"
             /\ {q \in Cells : ImageKeys'[q] = "mine_hit"} = {p}
      ]_vars

\* A lost game in which the row of the hit mine holds another mine.
C8_Witness ==
    /\ gameState = "lost"
    /\ visited = <<hitMineCoordinates>>
    /\ \E q \in Mines : q # hitMineCoordinates /\ q[1] = hitMineCoordinates[1]
    /\ \E q \in Mines : q[1] # hitMineCoordinates[1]
    /\ NonMines # {}

\* C9: while playing, a revealCell call on a non-mine cell after which every
\* non-mine cell has been revealed, by that call or before, wins the game
\* and reveals the whole board; in state won every mine maps to mine_normal
\* and no cell maps to mine_hit.
C9_LastCellWins ==
    [][/\ \A p \in Cells :
            (/\ gameState = "playing"
             /\ ~board[p].isRevealed
             /\ ~board[p].isMine
             /\ RevealCell(p[1], p[2])
             /\ NonMines \subseteq (Revealed \cup Range(visited')))
            => /\ gameState' = "won"
               /\ Revealed' = Cells
       /\ gameState' = "won" =>
            /\ \A q \in Mines' : ImageKeys'[q] = "mine_normal"
            /\ \A q \in Cells : ImageKeys'[q] # "mine_hit"
      ]_vars

\* A game with mines won by a flood fill.
C9_Witness ==
    /\ gameState = "won"
    /\ mineCount >= 1
    /\ Len(visited) >= 2
    /\ Revealed = Cells

\* The non-mine cells whose adjacentMines is 0.
ZeroCells == {p \in NonMines : board[p].adjacentMines = 0}

\* The 8-connected region of zero-adjacency cells that contains the cells of S.
RECURSIVE ZeroRegion(_)
ZeroRegion(S) ==
    LET grown == S \cup {q \in ZeroCells : \E p \in S : q \in MooreNeighbours(p)}
    IN IF grown = S THEN S ELSE ZeroRegion(grown)

\* The region of c with the non-zero-adjacency cells that neighbour it.
FloodSet(c) ==
    LET region == ZeroRegion({c})
    IN region \cup {q \in Cells : /\ board[q].adjacentMines # 0
                                   /\ \E p \in region : q \in MooreNeighbours(p)}

\* The step is a revealCell call, made while playing, on the unrevealed
\* zero-adjacency non-mine cell c.
RevealsZeroCell(c) ==
    /\ gameState = "playing"
    /\ c \in ZeroCells \ Revealed
    /\ RevealCell(c[1], c[2])

\* C10 as claimed: revealCell on an unrevealed zero-adjacency cell c changes
\* from unrevealed to revealed exactly the cells of c's zero region and the
\* numbered cells that neighbour it.
C10_FloodFillExactlyRegion ==
    [][\A c \in Cells :
          RevealsZeroCell(c) => Revealed' \ Revealed = FloodSet(c)]_vars

\* C10 as amended: the call reveals, each once, exactly the cells of that set
\* that were not revealed before; these are all the cells that change when
\* the game is still playing afterwards, and when the call reveals the last
\* non-mine cell the game is won and every cell, mines included, is revealed.
C10_FloodFillUnrevealedOfRegion ==
    [][\A c \in Cells :
          RevealsZeroCell(c) =>
            /\ Range(visited') = FloodSet(c) \ Revealed
            /\ Len(visited') = Cardinality(Range(visited'))
            /\ ZeroRegion({c}) \cap Revealed = {}
            /\ IF NonMines \subseteq (Revealed \cup FloodSet(c))
               THEN gameState' = "won" /\ Revealed' = Cells
               ELSE gameState' = "playing" /\ Revealed' \ Revealed = FloodSet(c) \ Revealed
      ]_vars

\* A flood fill that left the game in progress: it revealed a region of two
\* zero cells or more, a numbered cell that borders the region had been
\* revealed before, and a non-mine cell outside stays hidden.
C10_Witness ==
    /\ gameState = "playing"
    /\ Cardinality(Range(visited) \cap ZeroCells) >= 2
    /\ \E q \in Revealed \ Range(visited) :
          \E p \in Range(visited) \cap ZeroCells : q \in MooreNeighbours(p)
    /\ NonMines \ Revealed # {}

\* C11: resetGame succeeds only when the game is won or lost. Called while
\* the game is playing it throws the "in progress" error and leaves the game
\* state, every cell, the counter, the hit-mine coordinates and both
\* timestamps as they were; a step that covers the revealed cells again is
\* made from a won or lost game and throws nothing.
C11_ResetStep ==
    /\ (gameState = "playing" /\ ResetGameRejected) =>
           /\ thrown' = <<GameInProgress>>
           /\ UNCHANGED <<rows, cols, mineCount, board, gameState,
                          remainingNonMineCells, hitMineCoordinates,
                          startTime, endTime>>
    /\ (Revealed # {} /\ Revealed' = {}) =>
           /\ gameState \in {"won", "lost"}
           /\ thrown' = NULL

C11_ResetOnlyWhenOver == [][C11_ResetStep]_vars

\* A reset was refused in a game that has a revealed cell and started before
\* the clock advanced.
C11_Witness ==
    /\ thrown = <<GameInProgress>>
    /\ gameState = "playing"
    /\ Revealed # {}
    /\ startTime < now

\* The state a construction with the same rows, cols and mineCount leaves,
\* as far as the fields the constructor sets go: playing, the counter at the
\* number of cells without a mine, no end time, no hit mine, the start time
\* stamped, every cell unrevealed.  (That the board holds mineCount mines and
\* the right numbers is true of every state: C1, C2.)
FreshGame ==
    /\ gameState = "playing"
    /\ remainingNonMineCells = rows * cols - mineCount
    /\ endTime = NULL
    /\ hitMineCoordinates = NULL
    /\ startTime = now
    /\ DOMAIN board = Cells
    /\ Revealed = {}

\* C12: a resetGame that succeeds leaves the engine as a fresh construction
\* with the same rows, cols and mineCount would: playing, every cell
\* unrevealed, the counter at rows * cols - mineCount, no end time, no hit
\* mine, a new start time, and rows, cols and mineCount as they were.
C12_ResetStep ==
    (gameState # "playing" /\ gameState' = "playing") =>
        /\ FreshGame'
        /\ UNCHANGED <<rows, cols, mineCount>>

C12_ResetIsFresh == [][C12_ResetStep]_vars

\* A lost game with a hit mine was reset after the clock advanced.
C12_Witness ==
    /\ FreshGame
    /\ edges = << <<"lost", "playing">> >>
    /\ startTime > 0
    /\ mineCount < rows * cols

\* The engine's fields of the instance t.
Engine(t) ==
    <<t.board, t.gameState, t.remainingNonMineCells, t.hitMineCoordinates,
      t.startTime, t.endTime>>

\* The conditions under which revealCell(a) is to do nothing.
Ignored(a) ==
    \/ gameState # "playing"
    \/ ~isValidPosition(a[1], a[2])
    \/ board[a].isRevealed

\* C13: revealCell changes nothing of the engine when the game is not
\* playing, when (row, col) is out of bounds, or when the cell is already
\* revealed; and after a call that passed the guard for its cell a second
\* revealCell with the same arguments changes nothing.
C13_RevealStep ==
    /\ \A a \in ClickArgs :
          Ignored(a) =>
              \/ UNCHANGED <<rows, cols, mineCount, board, gameState,
                             remainingNonMineCells, hitMineCoordinates,
                             startTime, endTime>>
              \/ ~RevealCell(a[1], a[2])
    /\ (now' = now /\ visited' # <<>>) =>
          \A a \in Cells :
              a = visited'[1] => Engine(revealCell(this, a[1], a[2]))' = Engine(this)'

C13_IgnoredCallsAreNoOps == [][C13_RevealStep]_vars

\* A cell revealed by an earlier call was clicked again while the game went
\* on: the last call passed no guard and another cell is still hidden.
C13_Witness ==
    /\ gameState = "playing"
    /\ visited = <<>>
    /\ thrown = NULL
    /\ Revealed # {}
    /\ remainingNonMineCells > 0

\* C14: revealCell never raises, whatever the game state and whatever
\* numbers other than NaN the click route passes it: the last call never
\* left a TypeError.
C14_RevealCellNeverRaises == thrown # <<TypeError>>

\* The arguments the constructor is to reject.
InvalidArguments ==
    rows <= 0 \/ cols <= 0 \/ mineCount < 0 \/ mineCount > rows * cols

\* C15: new Minesweeper(rows, cols, mineCount) throws when rows <= 0 or
\* cols <= 0, when mineCount < 0 and when mineCount > rows * cols, and leaves
\* no game; for all other arguments, mineCount = rows * cols among them, it
\* throws nothing and leaves a playing game with every cell unrevealed.
C15_NewStep ==
    gameState = "undefined" =>
        IF InvalidArguments
        THEN thrown' # <<>> /\ gameState' = "undefined"
        ELSE /\ thrown' = <<>>
             /\ gameState' = "playing"
             /\ DOMAIN board' = Cells
             /\ \A p \in Cells : ~board'[p].isRevealed
             /\ UNCHANGED <<rows, cols, mineCount>>

C15_ConstructionValidates == [][C15_NewStep]_vars

\* A board of several cells was constructed with a mine on every cell.
C15_Witness ==
    /\ gameState = "playing"
    /\ rows * cols > 1
    /\ mineCount = rows * cols
    /\ Mines = Cells
    /\ Revealed = {}

\* C16: for every construction with accepted arguments and every reset the
\* while loop of placeMines ends, the random picks being fair: minesPlaced
\* reaches mineCount.
C16_PlacementTerminates == <>(minesPlaced >= mineCount)

\* The loop ended on a board of several cells with a mine on every cell:
\* the last mine had a single free cell to go to.
C16_Witness ==
    /\ minesPlaced = mineCount
    /\ mineCount = rows * cols
    /\ rows * cols > 2
    /\ Mines = Cells

\* C17: while playing, revealCell on an unrevealed cell that is no mine, has
\* adjacentMines > 0 and is not the last unrevealed cell without a mine,
\* reveals that cell and no other, takes exactly 1 off the counter and leaves
\* the game playing.
C17_RevealStep ==
    \A p \in Cells :
        ( /\ gameState = "playing"
          /\ p \in NonMines \ Revealed
          /\ board[p].adjacentMines > 0
          /\ (NonMines \ Revealed) # {p}
          /\ RevealCell(p[1], p[2]) )
        => /\ board' = [board EXCEPT ![p].isRevealed = TRUE]
           /\ visited' = <<p>>
           /\ remainingNonMineCells' = remainingNonMineCells - 1
           /\ gameState' = "playing"
           /\ edges' = <<>>

C17_NumberedCellRevealsItself == [][C17_RevealStep]_vars

\* On a 2 x 2 board with one mine the first click on a cell took the counter
\* from 3 to 2.
C17_Witness ==
    /\ rows = 2 /\ cols = 2 /\ mineCount = 1
    /\ gameState = "playing"
    /\ Len(visited) = 1
    /\ Revealed = {visited[1]}
    /\ board[visited[1]].adjacentMines = 1
    /\ remainingNonMineCells = 2

\* The sequence s holds no cell twice.
NoDuplicates(s) ==
    \A i, j \in 1 .. Len(s) : s[i] = s[j] => i = j

\* C18: within one game a cell passes the guard of revealCell at most once
\* over all calls: in every step that is no reset and no tick of the clock,
\* the cells that pass it are distinct, were unrevealed before and are
\* revealed after, and revealed cells stay revealed until a reset. The
\* counter goes down by 1 for each non-mine cell that passes the guard and
\* by nothing else, and is never negative. A call ends after at most
\* rows * cols passes of the guard.
C18_Step ==
    /\ remainingNonMineCells' >= 0
    /\ (gameState = "playing" \/ gameState' # "playing") =>
          /\ Revealed \subseteq Revealed'
          /\ now' = now =>
                /\ NoDuplicates(visited')
                /\ Range(visited') \cap Revealed = {}
                /\ Range(visited') \subseteq Revealed'
                /\ Len(visited') <= rows * cols
                /\ remainingNonMineCells' =
                       remainingNonMineCells - Cardinality(Range(visited') \cap NonMines)

C18_GuardPassedOncePerCell ==
    remainingNonMineCells >= 0 /\ [][C18_Step]_vars

\* A flood fill ran in a game in which an earlier call had revealed a cell:
\* the fill passed the guard for two cells or more, not for the cell revealed
\* before, and the game goes on.
C18_Witness ==
    /\ gameState = "playing"
    /\ Len(visited) >= 2
    /\ Revealed \ Range(visited) # {}

\* While the game is playing no mine is revealed, and mine_hit is the image
\* of the hit mine of a lost game only.
NoMineShown ==
    /\ gameState = "playing" => Mines \cap Revealed = {}
    /\ \A p \in Cells :
          ImageKeys[p] = "mine_hit" => gameState = "lost" /\ hitMineCoordinates = p

\* C20: the flood fill never reveals a mine. In a revealCell(row, col) only
\* the top-level call can take the mine branch, and the game becomes lost
\* only when (row, col) itself holds a mine; the cells the recursive calls
\* pass the guard for hold no mine. While the game is playing no mine is
\* revealed, so that getCellImage never takes its mine_hit fallback.
C20_Step ==
    /\ NoMineShown'
    /\ now' = now =>
          /\ \A i \in 2 .. Len(visited') : visited'[i] \notin Mines
          /\ (visited' # <<>> /\ visited'[1] \in Mines) => gameState' = "lost"
    /\ (gameState = "playing" /\ gameState' = "lost") =>
          /\ Len(visited') = 1
          /\ visited'[1] \in Mines
          /\ \A a \in Cells : a = visited'[1] => RevealCell(a[1], a[2])

C20_FloodFillRevealsNoMine == NoMineShown /\ [][C20_Step]_vars

\* A flood fill reached a numbered cell next to a mine and the game goes on
\* with every mine hidden.
C20_Witness ==
    /\ gameState = "playing"
    /\ Len(visited) >= 2
    /\ \E i \in 1 .. Len(visited) :
          /\ board[visited[i]].adjacentMines > 0
          /\ MooreNeighbours(visited[i]) \cap Mines # {}
    /\ Mines \cap Revealed = {}

\* A board no call is in the middle of changing: a game that is over shows
\* every cell, a game that goes on shows no mine and counts its hidden cells
\* without a mine, and every revealed cell with no adjacent mine has all its
\* neighbours revealed.
Consistent ==
    /\ gameState \in {"won", "lost"} => Revealed = Cells
    /\ gameState = "playing" =>
          /\ Mines \cap Revealed = {}
          /\ remainingNonMineCells = Cardinality(NonMines \ Revealed)
          /\ hitMineCoordinates = NULL /\ endTime = NULL
    /\ \A p \in Revealed \ Mines :
          board[p].adjacentMines = 0 => MooreNeighbours(p) \subseteq Revealed

\* C19: however click, reset and image requests follow one another, a request
\* is answered only when no revealCell or resetGame is in progress, and from
\* a board that no call has left changed in part.
C19_ReadsSeeWholeCalls ==
    observed # NULL => (stack = <<>> /\ Consistent)

\* The image of a revealed cell with no adjacent mine was read while the game
\* goes on: the flood fill from it, several steps long, was over.
C19_Witness ==
    /\ Len(observed) = 3
    /\ observed[1] = "cell_revealed_0"
    /\ gameState = "playing"
    /\ Cardinality(Revealed) >= 3
====
